---- MODULE Spec2Model ----
(***************************************************************************)
(* Patient payment ledger of the clinic management system.                 *)
(*                                                                         *)
(* Two ledgers live in the repository and are modelled side by side; a     *)
(* behaviour runs one of them (variable world):                            *)
(*   "local" : hooks/usePayments.ts with the PaymentHistory component,     *)
(*             payments kept in localStorage under 'patient_payments',     *)
(*             one in-memory copy per mounted hook instance (a tab);       *)
(*   "lab"   : hooks/useLabWorkPayments.ts with the LabWorkPaymentDialog,  *)
(*             rows of the table lab_work_payments;                        *)
(*   "summary" : getPaymentSummaryForPatient alone, the one of             *)
(*             hooks/usePayments.ts and the one of the earlier usePayments *)
(*             kept in the repository, applied to bounded inputs.          *)
(*                                                                         *)
(* Money is counted in minor units (1 = 0.01).  JavaScript's binary        *)
(* floating point rounding is outside the model.                           *)
(***************************************************************************)
EXTENDS Integers, Sequences, FiniteSets, TLC

\* ------------------------------------------------------------------ bounds
MaxPayments == 2        \* payments created in one behaviour
MaxDay == 2             \* calendar days the clock runs through
Sessions == {1, 2}      \* mounted hook instances (tabs / components)
Patients == {"PT1", "PT2"}
LabWorks == {"LW1", "LW2"}
\* the patient a session's PaymentHistory is opened for
PatientChoices(s) == IF s = 1 THEN {"PT1"} ELSE Patients
\* what a user submits in the payment dialog: the text of the amount field
\* (an <input type="number">, "" when the text is not a number), the method
\* and the notes
Form(amount, method, notes) ==
    [amount |-> amount, paymentMethod |-> method, notes |-> notes]
InvalidForms == {Form("", "cash", ""), Form("0", "cash", ""),
                 Form("-5", "card", "")}
\* the add form of the lab-work dialog has a date field
LabForm(amount, date) ==
    [amount |-> amount, payment_date |-> date, payment_method |-> "cash",
     notes |-> ""]
\* the days a user picks in a date field
FormDates == {1, 2}
LabForms == {LabForm("", 1), LabForm("0", 1), LabForm("-5", 1)}
                \cup {LabForm("0.01", d) : d \in FormDates}
\* what is typed into the amount field of an edit row
AmountTexts == {"", "0", "-5", "0.02"}
RecordForms == {Form("0.01", "cash", "")}
EditForms == {Form("0.02", "card", "adv")}
\* what is chosen in the method select and typed into the notes field of an
\* edit row
EditMethods == {"card"}
EditNotes == {"adv"}
\* which of the two cost fetches of a summary fail: <<treatments, lab_work>>
FetchFailures == {<<FALSE, FALSE>>, <<TRUE, FALSE>>, <<FALSE, TRUE>>}

VARIABLES
    world,       \* which persistence variant this behaviour runs
    today,       \* new Date().toISOString().split('T')[0]
    now,         \* Date.now(), advanced by every creation
    storage,     \* localStorage['patient_payments'], parsed
    corrupt,     \* the stored text is one JSON.parse rejects
    payments,    \* usePayments: useState<Payment[]> per hook instance
    mounted,     \* the PaymentHistory of the session is mounted
    patientId,   \* PaymentHistory prop
    shown,       \* PaymentHistory: patientPayments and paymentSummary
    editing,     \* PaymentHistory: editingPayment (its id, 0 = null)
    timers,      \* pending setTimeout callbacks of addPayment
    treatments,  \* table treatments: treatment_cost per patient
    labWork,     \* table lab_work: cost per patient
    toast,       \* the toast the last handler raised ("none": it raised none)
    labPayments,     \* table lab_work_payments
    labHook,         \* useLabWorkPayments: useState<LabWorkPayment[]>
    dialog,          \* LabWorkPaymentDialog: labWorkId while open
    labEditing,      \* LabWorkPaymentDialog: editingPayment (0 = null)
    editPaymentData, \* LabWorkPaymentDialog: editPaymentData (<<>> = {})
    paymentRows,     \* table payments
    labWorkRows,     \* table lab_work
    labWorkHook,     \* useLabWork: useState<LabWork[]>
    calls            \* useLabWork: calls awaiting the database's answer

labVars == <<labPayments, labHook, dialog, labEditing, editPaymentData>>
localVars == <<storage, payments, mounted, patientId, shown, editing, timers>>
dbVars == <<paymentRows, labWorkRows, labWorkHook, calls>>

vars == <<world, corrupt, today, now, storage, payments, mounted, patientId,
          shown,
          editing, timers, treatments, labWork, toast, labPayments, labHook,
          dialog, labEditing, editPaymentData, paymentRows, labWorkRows,
          labWorkHook, calls>>

\* ------------------------------------------------------------ JS numbers
NaN == [nan |-> TRUE, val |-> 0]
Num(v) == [nan |-> FALSE, val |-> v]

\* parseFloat of the text of a number input, in minor units
parseFloat(str) ==
    CASE str = "0" -> Num(0)
      [] str = "-5" -> Num(-500)
      [] str = "0.01" -> Num(1)
      [] str = "0.02" -> Num(2)
      [] OTHER -> NaN

\* x <= 0 on JS numbers: every comparison with NaN is false
LeqZero(n) == ~n.nan /\ n.val <= 0

\* !x on a JS number: 0 and NaN are falsy
Falsy(n) == n.nan \/ n.val = 0

\* a nullable numeric column: <<>> is NULL, <<v>> is the value v
NULL == <<>>
OrZero(c) == IF c = NULL THEN 0 ELSE c[1]

\* ------------------------------------------------------- array helpers
RECURSIVE SumCosts(_)
SumCosts(costs) ==
    IF costs = <<>> THEN 0
    ELSE SumCosts(SubSeq(costs, 1, Len(costs) - 1)) + OrZero(costs[Len(costs)])

RECURSIVE SumAmounts(_)
SumAmounts(ps) ==
    IF ps = <<>> THEN 0
    ELSE SumAmounts(SubSeq(ps, 1, Len(ps) - 1)) + ps[Len(ps)].amount

Ids(ps) == {ps[i].id : i \in DOMAIN ps}

\* { ...payment, ...updates }
Merge(payment, updates) ==
    [f \in DOMAIN payment |->
        IF f \in DOMAIN updates THEN updates[f] ELSE payment[f]]

\* --------------------------------------------- hooks/usePayments.ts
\* fetchPayments: the value handed to setPayments; text that does not parse
\* gives []
fetchPayments(stored, unparsable) == IF unparsable THEN <<>> ELSE stored

\* fetchPayments: what it leaves in localStorage; text that does not parse
\* is replaced by '[]'
fetchPaymentsStored(stored, unparsable) ==
    IF unparsable THEN <<>> ELSE stored

\* savePaymentsToStorage as it would be if a setItem that throws had
\* written the list all the same
savePaymentsToStorageAnyway(stored, paymentsData, ok) == paymentsData

\* savePaymentsToStorage: the stored value after the call; setItem may throw
savePaymentsToStorage(stored, paymentsData, ok) ==
    IF ok THEN paymentsData ELSE stored

\* addPayment: the list handed to setPayments and to savePaymentsToStorage
addPayment(ps, paymentData, id, createdAt) ==
    Append(ps, [id |-> id,
                patient_id |-> paymentData.patient_id,
                amount |-> paymentData.amount,
                payment_date |-> paymentData.payment_date,
                payment_method |-> paymentData.payment_method,
                notes |-> paymentData.notes,
                created_at |-> createdAt])

\* updatePayment as it would be if it stamped the day of the update on the
\* payment
updatePaymentRestamped(ps, paymentId, updates) ==
    [i \in DOMAIN ps |->
        IF ps[i].id = paymentId
        THEN Merge(Merge(ps[i], updates), [payment_date |-> today])
        ELSE ps[i]]

updatePayment(ps, paymentId, updates) ==
    [i \in DOMAIN ps |->
        IF ps[i].id = paymentId THEN Merge(ps[i], updates) ELSE ps[i]]

\* the filter as it would be if it dropped every payment of the day of the
\* deleted one
deletePaymentOfDay(ps, paymentId) ==
    LET days == {ps[i].payment_date : i \in {j \in DOMAIN ps : ps[j].id = paymentId}}
    IN SelectSeq(ps, LAMBDA p : p.payment_date \notin days)

deletePayment(ps, paymentId) ==
    SelectSeq(ps, LAMBDA p : p.id # paymentId)

getPaymentsByPatient(ps, pid) ==
    SelectSeq(ps, LAMBDA p : p.patient_id = pid)

\* a supabase select: {data, error}; data is null when error is set
FetchResult(rows, failed) ==
    IF failed THEN [error |-> TRUE, data |-> <<>>]
    ELSE [error |-> FALSE, data |-> rows]

\* the summary as it would be if a balance below 0 were reported as 0
getPaymentSummaryForPatientClamped(treatRes, labRes, ps, pid) ==
    LET treatmentCosts == IF treatRes.error THEN 0 ELSE SumCosts(treatRes.data)
        labWorkCosts == IF labRes.error THEN 0 ELSE SumCosts(labRes.data)
        totalCost == treatmentCosts + labWorkCosts
        totalPaid == SumAmounts(getPaymentsByPatient(ps, pid))
    IN [totalCost |-> totalCost,
        totalPaid |-> totalPaid,
        balance |-> IF totalCost < totalPaid THEN 0 ELSE totalCost - totalPaid]

\* getPaymentSummaryForPatient of usePayments.ts: a fetch error is logged
\* and its null data reduces to 0; ps is the payments array of the closure
getPaymentSummaryForPatient(treatRes, labRes, ps, pid) ==
    LET treatmentCosts == IF treatRes.error THEN 0 ELSE SumCosts(treatRes.data)
        labWorkCosts == IF labRes.error THEN 0 ELSE SumCosts(labRes.data)
        totalCost == treatmentCosts + labWorkCosts
        totalPaid == SumAmounts(getPaymentsByPatient(ps, pid))
    IN [totalCost |-> totalCost,
        totalPaid |-> totalPaid,
        balance |-> totalCost - totalPaid]

\* getPaymentSummaryForPatient of the earlier usePayments: only the
\* treatments are fetched; a fetch error is thrown into the catch, which
\* returns the zero summary
getPaymentSummaryForPatientDraft(treatRes, ps, pid) ==
    IF treatRes.error
    THEN [totalCost |-> 0, totalPaid |-> 0, balance |-> 0]
    ELSE LET totalCost == SumCosts(treatRes.data)
             totalPaid == SumAmounts(getPaymentsByPatient(ps, pid))
         IN [totalCost |-> totalCost,
             totalPaid |-> totalPaid,
             balance |-> totalCost - totalPaid]

\* ---------------------------------- components/patients/PaymentHistory.tsx
\* fetchPaymentData: Promise.all of the summary and the list, both computed
\* by the functions of the render the handler belongs to (ps is that render's
\* payments array); ff tells which cost fetches fail
fetchPaymentData(ps, pid, ff) ==
    [list |-> getPaymentsByPatient(ps, pid),
     summary |-> getPaymentSummaryForPatient(
                     FetchResult(treatments[pid], ff[1]),
                     FetchResult(labWork[pid], ff[2]), ps, pid),
     failed |-> ff]

\* the amount field is rejected: !newPayment.amount || parseFloat(..) <= 0
InvalidAmountText(amt) == amt = "" \/ LeqZero(parseFloat(amt))

\* mount: the hook's effect loads the stored payments, the component's effect
\* runs fetchPaymentData of the first render, whose payments array is []
Mount(s, pid, ff) ==
    /\ world = "local"
    /\ ~mounted[s]
    /\ mounted' = [mounted EXCEPT ![s] = TRUE]
    /\ patientId' = [patientId EXCEPT ![s] = pid]
    /\ payments' = [payments EXCEPT ![s] = fetchPayments(storage, corrupt)]
    /\ storage' = fetchPaymentsStored(storage, corrupt)
    /\ corrupt' = FALSE
    /\ UNCHANGED dbVars
    /\ shown' = [shown EXCEPT ![s] = fetchPaymentData(<<>>, pid, ff)]
    /\ toast' = "none"
    /\ UNCHANGED labVars
    /\ UNCHANGED <<world, today, now, editing, timers, treatments, labWork>>

\* the patientId prop changes: useEffect(.., [patientId]) runs
\* fetchPaymentData of the render that received the new prop
ChangePatient(s, pid, ff) ==
    /\ world = "local"
    /\ mounted[s]
    /\ editing[s] = 0
    /\ pid # patientId[s]
    /\ patientId' = [patientId EXCEPT ![s] = pid]
    /\ shown' = [shown EXCEPT ![s] = fetchPaymentData(payments[s], pid, ff)]
    /\ toast' = "none"
    /\ UNCHANGED labVars
    /\ UNCHANGED corrupt
    /\ UNCHANGED dbVars
    /\ UNCHANGED <<world, today, now, storage, payments, mounted, editing,
                   timers, treatments, labWork>>

\* handleRefreshData: refreshPayments reloads the hook state, then
\* fetchPaymentData of the same render reads that render's payments array
handleRefreshData(s, ff) ==
    /\ world = "local"
    /\ mounted[s]
    /\ payments' = [payments EXCEPT ![s] = fetchPayments(storage, corrupt)]
    /\ storage' = fetchPaymentsStored(storage, corrupt)
    /\ corrupt' = FALSE
    /\ UNCHANGED dbVars
    /\ shown' = [shown EXCEPT
                   ![s] = fetchPaymentData(payments[s], patientId[s], ff)]
    /\ toast' = "refreshed"
    /\ UNCHANGED labVars
    /\ UNCHANGED <<world, today, now, mounted, patientId, editing, timers,
                   treatments, labWork>>

handleAddPayment(s, form, saveOk, ff) ==
    /\ world = "local"
    /\ mounted[s]
    /\ editing[s] = 0
    /\ IF InvalidAmountText(form.amount)
       THEN /\ toast' = "invalid_amount"
            /\ UNCHANGED <<now, storage, payments, shown, timers>>
       ELSE /\ now < MaxPayments
            /\ LET paymentData == [patient_id |-> patientId[s],
                                   amount |-> parseFloat(form.amount).val,
                                   payment_date |-> today,
                                   payment_method |-> form.paymentMethod,
                                   notes |-> form.notes]
                   updatedPayments ==
                       addPayment(payments[s], paymentData, now + 1, now + 1)
               IN /\ now' = now + 1
                  /\ storage' = savePaymentsToStorage(storage,
                                                      updatedPayments, saveOk)
                  /\ IF saveOk
                     THEN /\ payments' = [payments EXCEPT
                                             ![s] = updatedPayments]
                          /\ timers' = [timers EXCEPT
                                 ![s] = timers[s] \cup {updatedPayments}]
                          /\ shown' = [shown EXCEPT
                                 ![s] = fetchPaymentData(payments[s],
                                            patientId[s], ff)]
                          /\ toast' = "added"
                     ELSE /\ toast' = "add_failed"
                          /\ UNCHANGED <<payments, timers, shown>>
    /\ UNCHANGED labVars
    /\ UNCHANGED corrupt
    /\ UNCHANGED dbVars
    /\ UNCHANGED <<world, today, mounted, patientId, editing, treatments,
                   labWork>>

\* the callback of setTimeout(() => setPayments([...updatedPayments]), 100)
addPaymentTimeout(s, updatedPayments) ==
    /\ world = "local"
    /\ updatedPayments \in timers[s]
    /\ payments' = [payments EXCEPT ![s] = updatedPayments]
    /\ timers' = [timers EXCEPT ![s] = timers[s] \ {updatedPayments}]
    /\ toast' = "none"
    /\ UNCHANGED labVars
    /\ UNCHANGED corrupt
    /\ UNCHANGED dbVars
    /\ UNCHANGED <<world, today, now, storage, mounted, patientId, shown,
                   editing, treatments, labWork>>

handleEditPayment(s, i) ==
    /\ world = "local"
    /\ mounted[s]
    /\ editing[s] = 0
    /\ i \in DOMAIN shown[s].list
    /\ editing' = [editing EXCEPT ![s] = shown[s].list[i].id]
    /\ toast' = "none"
    /\ UNCHANGED labVars
    /\ UNCHANGED corrupt
    /\ UNCHANGED dbVars
    /\ UNCHANGED <<world, today, now, storage, payments, mounted, patientId,
                   shown, timers, treatments, labWork>>

resetDialog(s) ==
    /\ world = "local"
    /\ editing[s] # 0
    /\ editing' = [editing EXCEPT ![s] = 0]
    /\ toast' = "none"
    /\ UNCHANGED labVars
    /\ UNCHANGED corrupt
    /\ UNCHANGED dbVars
    /\ UNCHANGED <<world, today, now, storage, payments, mounted, patientId,
                   shown, timers, treatments, labWork>>

handleUpdatePayment(s, form, saveOk, ff) ==
    /\ world = "local"
    /\ mounted[s]
    /\ editing[s] # 0
    /\ IF InvalidAmountText(form.amount)
       THEN /\ toast' = "invalid_amount"
            /\ UNCHANGED <<storage, payments, shown, editing>>
       ELSE LET updates == [amount |-> parseFloat(form.amount).val,
                            payment_method |-> form.paymentMethod,
                            notes |-> form.notes]
                updatedPayments ==
                    updatePayment(payments[s], editing[s], updates)
            IN /\ storage' = savePaymentsToStorage(storage, updatedPayments,
                                                   saveOk)
               /\ IF saveOk
                  THEN /\ payments' = [payments EXCEPT
                                          ![s] = updatedPayments]
                       /\ shown' = [shown EXCEPT
                              ![s] = fetchPaymentData(payments[s],
                                         patientId[s], ff)]
                       /\ editing' = [editing EXCEPT ![s] = 0]
                       /\ toast' = "updated"
                  ELSE /\ toast' = "update_failed"
                       /\ UNCHANGED <<payments, shown, editing>>
    /\ UNCHANGED labVars
    /\ UNCHANGED corrupt
    /\ UNCHANGED dbVars
    /\ UNCHANGED <<world, today, now, mounted, patientId, timers, treatments,
                   labWork>>

handleDeletePayment(s, i, confirmed, saveOk, ff) ==
    /\ world = "local"
    /\ mounted[s]
    /\ i \in DOMAIN shown[s].list
    /\ LET paymentId == shown[s].list[i].id
           updatedPayments == deletePayment(payments[s], paymentId)
       IN IF ~confirmed
          THEN /\ toast' = "none"
               /\ UNCHANGED <<storage, payments, shown>>
          ELSE /\ storage' = savePaymentsToStorage(storage, updatedPayments,
                                                   saveOk)
               /\ IF saveOk
                  THEN /\ payments' = [payments EXCEPT
                                          ![s] = updatedPayments]
                       /\ shown' = [shown EXCEPT
                              ![s] = fetchPaymentData(payments[s],
                                         patientId[s], ff)]
                       /\ toast' = "deleted"
                  ELSE /\ toast' = "delete_failed"
                       /\ UNCHANGED <<payments, shown>>
    /\ UNCHANGED labVars
    /\ UNCHANGED corrupt
    /\ UNCHANGED dbVars
    /\ UNCHANGED <<world, today, now, mounted, patientId, editing, timers,
                   treatments, labWork>>

\* the calendar day changes
Tick ==
    /\ today < MaxDay
    /\ today' = today + 1
    /\ toast' = "none"
    /\ UNCHANGED labVars
    /\ UNCHANGED corrupt
    /\ UNCHANGED dbVars
    /\ UNCHANGED <<world, now, storage, payments, mounted, patientId, shown,
                   editing, timers, treatments, labWork>>

\* ------------------------------------- hooks/useLabWorkPayments.ts
\* the permutations of a finite set of rows
RECURSIVE RowOrders(_)
RowOrders(rows) ==
    IF rows = {} THEN {<<>>}
    ELSE UNION {{<<r>> \o rest : rest \in RowOrders(rows \ {r})} :
                r \in rows}

\* .order('payment_date', { ascending: false }): rows of equal date come in
\* whatever order the database returns them
OrderedByDateDesc(seq) ==
    \A i, j \in DOMAIN seq : i < j => seq[i].payment_date >= seq[j].payment_date

\* fetchPaymentsByLabWork: the lists the select may return
fetchPaymentsByLabWork(table, labWorkId) ==
    {seq \in RowOrders({r \in table : r.lab_work_id = labWorkId}) :
        OrderedByDateDesc(seq)}

\* the constraint as it would be if it only ruled out zero
amount_check_nonzero(amount) == amount # 0

\* CHECK (amount > 0) of lab_work_payments and of payments
amount_check(amount) == amount > 0

\* lab_work_payments.lab_work_id REFERENCES lab_work(id), and the same
\* reference of payments.lab_work_id
lab_work_id_fkey(rows, lab_work_id) == lab_work_id \in {r.id : r \in rows}

\* what an insert / update / delete of the hook does to the table and
\* whether supabase reports an error; reachable tells whether the request
\* gets through
InsertRow(table, row, reachable) ==
    IF reachable /\ amount_check(row.amount)
    THEN [error |-> FALSE, table |-> table \cup {row}]
    ELSE [error |-> TRUE, table |-> table]

\* .update(updates).eq('id', paymentId).select().single(): no matching row
\* makes single() report an error
UpdateRow(table, paymentId, updates, reachable) ==
    LET hit == {r \in table : r.id = paymentId}
        new == {Merge(r, updates) : r \in hit}
    IN IF reachable /\ hit # {} /\ \A r \in new : amount_check(r.amount)
       THEN [error |-> FALSE, table |-> (table \ hit) \cup new]
       ELSE [error |-> TRUE, table |-> table]

\* .delete().eq('id', paymentId): no matching row is not an error
DeleteRow(table, paymentId, reachable) ==
    IF reachable
    THEN [error |-> FALSE, table |-> {r \in table : r.id # paymentId}]
    ELSE [error |-> TRUE, table |-> table]

calculateTotalPaid(labWorkPayments) == SumAmounts(labWorkPayments)

calculateBalance(totalCost, labWorkPayments) ==
    totalCost - calculateTotalPaid(labWorkPayments)

\* ------------------- LabWorkPaymentDialog (components/patients/PaymentHistory.tsx)
\* the dialog opens for a lab-work order: useEffect(.., [open, labWorkId])
LabOpen(s, lw, reachable) ==
    /\ world = "lab"
    /\ dialog[s] = "closed"
    /\ dialog' = [dialog EXCEPT ![s] = lw]
    /\ IF reachable
       THEN \E seq \in fetchPaymentsByLabWork(labPayments, lw) :
               labHook' = [labHook EXCEPT ![s] = seq]
       ELSE UNCHANGED labHook
    /\ toast' = "none"
    /\ UNCHANGED <<labPayments, labEditing, editPaymentData>>
    /\ UNCHANGED localVars
    /\ UNCHANGED corrupt
    /\ UNCHANGED dbVars
    /\ UNCHANGED <<world, today, now, treatments, labWork>>

LabClose(s) ==
    /\ world = "lab"
    /\ dialog[s] # "closed"
    /\ dialog' = [dialog EXCEPT ![s] = "closed"]
    /\ toast' = "none"
    /\ UNCHANGED <<labPayments, labHook, labEditing, editPaymentData>>
    /\ UNCHANGED localVars
    /\ UNCHANGED corrupt
    /\ UNCHANGED dbVars
    /\ UNCHANGED <<world, today, now, treatments, labWork>>

\* handleAddPayment of the dialog; form.payment_date is the date field
LabHandleAddPayment(s, form, reachable) ==
    /\ world = "lab"
    /\ dialog[s] # "closed"
    /\ IF InvalidAmountText(form.amount)
       THEN /\ toast' = "none"
            /\ UNCHANGED <<now, labPayments, labHook>>
       ELSE /\ now < MaxPayments
            /\ LET row == [id |-> now + 1,
                           lab_work_id |-> dialog[s],
                           amount |-> parseFloat(form.amount).val,
                           payment_date |-> form.payment_date,
                           payment_method |-> form.payment_method,
                           notes |-> form.notes,
                           created_at |-> now + 1]
                   res == InsertRow(labPayments, row,
                              reachable /\ lab_work_id_fkey(labWorkRows,
                                                            dialog[s]))
               IN /\ labPayments' = res.table
                  /\ IF res.error
                     THEN /\ toast' = "add_failed"
                          /\ UNCHANGED <<now, labHook>>
                     ELSE /\ toast' = "added"
                          /\ now' = now + 1
                          /\ labHook' = [labHook EXCEPT
                                           ![s] = <<row>> \o labHook[s]]
    /\ UNCHANGED <<dialog, labEditing, editPaymentData>>
    /\ UNCHANGED localVars
    /\ UNCHANGED corrupt
    /\ UNCHANGED dbVars
    /\ UNCHANGED <<world, today, treatments, labWork>>

\* handleEditPayment of the dialog: the row is copied into editPaymentData
LabHandleEditPayment(s, i) ==
    /\ world = "lab"
    /\ dialog[s] # "closed"
    /\ i \in DOMAIN labHook[s]
    /\ labEditing' = [labEditing EXCEPT ![s] = labHook[s][i].id]
    /\ editPaymentData' = [editPaymentData EXCEPT
           ![s] = [labHook[s][i] EXCEPT !.amount = Num(labHook[s][i].amount)]]
    /\ toast' = "none"
    /\ UNCHANGED <<labPayments, labHook, dialog>>
    /\ UNCHANGED localVars
    /\ UNCHANGED corrupt
    /\ UNCHANGED dbVars
    /\ UNCHANGED <<world, today, now, treatments, labWork>>

\* onChange of the amount field of the edit row: amount: parseFloat(value)
LabChangeAmount(s, text) ==
    /\ world = "lab"
    /\ labEditing[s] # 0
    /\ editPaymentData' = [editPaymentData EXCEPT
           ![s] = Merge(editPaymentData[s], [amount |-> parseFloat(text)])]
    /\ toast' = "none"
    /\ UNCHANGED <<labPayments, labHook, dialog, labEditing>>
    /\ UNCHANGED localVars
    /\ UNCHANGED corrupt
    /\ UNCHANGED dbVars
    /\ UNCHANGED <<world, today, now, treatments, labWork>>

\* onChange of the date field of the edit row
LabChangeDate(s, date) ==
    /\ world = "lab"
    /\ labEditing[s] # 0
    /\ editPaymentData' = [editPaymentData EXCEPT
           ![s] = Merge(editPaymentData[s], [payment_date |-> date])]
    /\ toast' = "none"
    /\ UNCHANGED <<labPayments, labHook, dialog, labEditing>>
    /\ UNCHANGED localVars
    /\ UNCHANGED corrupt
    /\ UNCHANGED dbVars
    /\ UNCHANGED <<world, today, now, treatments, labWork>>

\* onValueChange of the method select of the edit row
LabChangeMethod(s, method) ==
    /\ world = "lab"
    /\ labEditing[s] # 0
    /\ editPaymentData' = [editPaymentData EXCEPT
           ![s] = Merge(editPaymentData[s], [payment_method |-> method])]
    /\ toast' = "none"
    /\ UNCHANGED <<labPayments, labHook, dialog, labEditing>>
    /\ UNCHANGED localVars
    /\ UNCHANGED corrupt
    /\ UNCHANGED dbVars
    /\ UNCHANGED <<world, today, now, treatments, labWork>>

\* onChange of the notes field of the edit row
LabChangeNotes(s, notes) ==
    /\ world = "lab"
    /\ labEditing[s] # 0
    /\ editPaymentData' = [editPaymentData EXCEPT
           ![s] = Merge(editPaymentData[s], [notes |-> notes])]
    /\ toast' = "none"
    /\ UNCHANGED <<labPayments, labHook, dialog, labEditing>>
    /\ UNCHANGED localVars
    /\ UNCHANGED corrupt
    /\ UNCHANGED dbVars
    /\ UNCHANGED <<world, today, now, treatments, labWork>>

\* the cancel button of the edit row
LabCancelEdit(s) ==
    /\ world = "lab"
    /\ labEditing[s] # 0
    /\ labEditing' = [labEditing EXCEPT ![s] = 0]
    /\ editPaymentData' = [editPaymentData EXCEPT ![s] = <<>>]
    /\ toast' = "none"
    /\ UNCHANGED <<labPayments, labHook, dialog>>
    /\ UNCHANGED localVars
    /\ UNCHANGED corrupt
    /\ UNCHANGED dbVars
    /\ UNCHANGED <<world, today, now, treatments, labWork>>

\* handleSaveEdit: if (!editingPayment || !editPaymentData.amount) return;
\* then updatePayment(editingPayment, editPaymentData)
handleSaveEdit(s, reachable) ==
    /\ world = "lab"
    /\ labEditing[s] # 0
    /\ IF Falsy(editPaymentData[s].amount)
       THEN /\ toast' = "none"
            /\ UNCHANGED <<labPayments, labHook, labEditing, editPaymentData>>
       ELSE LET updates == [editPaymentData[s] EXCEPT
                               !.amount = editPaymentData[s].amount.val]
                res == UpdateRow(labPayments, labEditing[s], updates,
                                 reachable)
            IN /\ labPayments' = res.table
               /\ IF res.error
                  THEN /\ toast' = "update_failed"
                       /\ UNCHANGED <<labHook, labEditing, editPaymentData>>
                  ELSE /\ toast' = "updated"
                       /\ labHook' = [labHook EXCEPT
                              ![s] = updatePayment(labHook[s], labEditing[s],
                                                   updates)]
                       /\ labEditing' = [labEditing EXCEPT ![s] = 0]
                       /\ editPaymentData' = [editPaymentData EXCEPT
                                                ![s] = <<>>]
    /\ UNCHANGED dialog
    /\ UNCHANGED localVars
    /\ UNCHANGED corrupt
    /\ UNCHANGED dbVars
    /\ UNCHANGED <<world, today, now, treatments, labWork>>

\* handleDeletePayment of the dialog
LabHandleDeletePayment(s, i, confirmed, reachable) ==
    /\ world = "lab"
    /\ dialog[s] # "closed"
    /\ i \in DOMAIN labHook[s]
    /\ LET paymentId == labHook[s][i].id
           res == DeleteRow(labPayments, paymentId, reachable)
       IN IF ~confirmed
          THEN /\ toast' = "none"
               /\ UNCHANGED <<labPayments, labHook>>
          ELSE /\ labPayments' = res.table
               /\ IF res.error
                  THEN /\ toast' = "delete_failed"
                       /\ UNCHANGED labHook
                  ELSE /\ toast' = "deleted"
                       /\ labHook' = [labHook EXCEPT
                              ![s] = deletePayment(labHook[s], paymentId)]
    /\ UNCHANGED <<dialog, labEditing, editPaymentData>>
    /\ UNCHANGED localVars
    /\ UNCHANGED corrupt
    /\ UNCHANGED dbVars
    /\ UNCHANGED <<world, today, now, treatments, labWork>>

\* ------------------------------------- the summary function on its own
\* a caller awaits getPaymentSummaryForPatient(pid) of hooks/usePayments.ts
Summarize(s, pid, ff) ==
    /\ world = "summary"
    /\ patientId' = [patientId EXCEPT ![s] = pid]
    /\ shown' = [shown EXCEPT
           ![s] = [list |-> shown[s].list,
                   summary |-> getPaymentSummaryForPatient(
                                   FetchResult(treatments[pid], ff[1]),
                                   FetchResult(labWork[pid], ff[2]),
                                   payments[s], pid),
                   failed |-> ff]]
    /\ toast' = "none"
    /\ UNCHANGED labVars
    /\ UNCHANGED corrupt
    /\ UNCHANGED dbVars
    /\ UNCHANGED <<world, today, now, storage, payments, mounted, editing,
                   timers, treatments, labWork>>

\* a caller awaits getPaymentSummaryForPatient(pid) of the earlier hook
SummarizeDraft(s, pid, failed) ==
    /\ world = "summary"
    /\ patientId' = [patientId EXCEPT ![s] = pid]
    /\ shown' = [shown EXCEPT
           ![s] = [list |-> shown[s].list,
                   summary |-> getPaymentSummaryForPatientDraft(
                                   FetchResult(treatments[pid], failed),
                                   payments[s], pid),
                   failed |-> <<failed, FALSE>>]]
    /\ toast' = "none"
    /\ UNCHANGED labVars
    /\ UNCHANGED corrupt
    /\ UNCHANGED dbVars
    /\ UNCHANGED <<world, today, now, storage, payments, mounted, editing,
                   timers, treatments, labWork>>

\* a caller awaits getPaymentSummaryForPatient(pid) of the hook draft that
\* reloads before it sums: await fetchPayments() rewrites a store that does
\* not parse and sets the state, and the sum then reads the payments array
\* of the render the function belongs to
SummarizeFresh(s, pid, ff) ==
    /\ world = "summary"
    /\ patientId' = [patientId EXCEPT ![s] = pid]
    /\ payments' = [payments EXCEPT ![s] = fetchPayments(storage, corrupt)]
    /\ storage' = fetchPaymentsStored(storage, corrupt)
    /\ corrupt' = FALSE
    /\ UNCHANGED dbVars
    /\ shown' = [shown EXCEPT
           ![s] = [list |-> shown[s].list,
                   summary |-> getPaymentSummaryForPatient(
                                   FetchResult(treatments[pid], ff[1]),
                                   FetchResult(labWork[pid], ff[2]),
                                   payments[s], pid),
                   failed |-> ff]]
    /\ toast' = "none"
    /\ UNCHANGED labVars
    /\ UNCHANGED <<world, today, now, mounted, editing, timers, treatments,
                   labWork>>

\* ---------------------------------------- the payments table of supabase
\* the rows of public.patients: PT2 is the id of no patient
PatientsTable == {"PT1"}

\* payments_patient_id_fkey: FOREIGN KEY (patient_id) REFERENCES patients
payments_patient_id_fkey(patient_id) == patient_id \in PatientsTable

\* getPaymentSummaryForPatient of the supabase draft: the error of each of
\* its three selects is logged and its null data reduces to 0
getPaymentSummaryForPatientSupabase(treatRes, labRes, payRes) ==
    LET treatmentCosts == IF treatRes.error THEN 0 ELSE SumCosts(treatRes.data)
        labWorkCosts == IF labRes.error THEN 0 ELSE SumCosts(labRes.data)
        totalCost == treatmentCosts + labWorkCosts
        totalPaid == IF payRes.error THEN 0 ELSE SumAmounts(payRes.data)
    IN [totalCost |-> totalCost,
        totalPaid |-> totalPaid,
        balance |-> totalCost - totalPaid]

\* ------------------------------------------------ hooks/useLabWork.ts
\* a row of lab_work: the order, its patient and its status
LabWorkRow(id, status) ==
    [id |-> id, patient_id |-> "PT1", status |-> status]

\* the database as the payment ledgers find it: both orders exist, no row of
\* payments, no useLabWork mounted
DbIdle ==
    /\ paymentRows = {}
    /\ labWorkRows = {LabWorkRow(lw, "pending") : lw \in LabWorks}
    /\ labWorkHook = <<>>
    /\ calls = {}

\* ON DELETE CASCADE of lab_work_payments.lab_work_id
lab_work_payments_on_delete(table, lab_work_id) ==
    {r \in table : r.lab_work_id # lab_work_id}

\* ON DELETE SET NULL of payments.lab_work_id
payments_on_delete(table, lab_work_id) ==
    {IF r.lab_work_id = <<lab_work_id>> THEN [r EXCEPT !.lab_work_id = NULL]
     ELSE r : r \in table}

\* fetchLabWork: an error is toasted and the state is left as it was
fetchLabWork(reachable) ==
    /\ world = "lab"
    /\ IF reachable
       THEN /\ \E seq \in RowOrders(labWorkRows) : labWorkHook' = seq
            /\ toast' = "none"
       ELSE /\ toast' = "load_failed"
            /\ UNCHANGED labWorkHook
    /\ UNCHANGED <<paymentRows, labWorkRows, calls>>
    /\ UNCHANGED labVars
    /\ UNCHANGED localVars
    /\ UNCHANGED corrupt
    /\ UNCHANGED <<world, today, now, treatments, labWork>>

\* createLabWork: the insert is awaited before the state is touched; the
\* row the database returns is put first
createLabWork(id, reachable) ==
    /\ world = "lab"
    /\ ~lab_work_id_fkey(labWorkRows, id)
    /\ IF reachable
       THEN /\ labWorkRows' = labWorkRows \cup {LabWorkRow(id, "pending")}
            /\ labWorkHook' = <<LabWorkRow(id, "pending")>> \o labWorkHook
            /\ toast' = "lab_created"
       ELSE /\ toast' = "lab_create_failed"
            /\ UNCHANGED <<labWorkRows, labWorkHook>>
    /\ UNCHANGED <<paymentRows, calls>>
    /\ UNCHANGED labVars
    /\ UNCHANGED localVars
    /\ UNCHANGED corrupt
    /\ UNCHANGED <<world, today, now, treatments, labWork>>

\* updateLabWork up to its await: the list is copied into originalLabWork
\* and the row is changed in the state at once
updateLabWorkBegin(labWorkId, updates) ==
    /\ world = "lab"
    /\ \E i \in DOMAIN labWorkHook : labWorkHook[i].id = labWorkId
    /\ \A c \in calls : c.id # labWorkId
    /\ calls' = calls \cup {[op |-> "update", id |-> labWorkId,
                             updates |-> updates,
                             originalLabWork |-> labWorkHook]}
    /\ labWorkHook' = [i \in DOMAIN labWorkHook |->
                          IF labWorkHook[i].id = labWorkId
                          THEN Merge(labWorkHook[i], updates)
                          ELSE labWorkHook[i]]
    /\ toast' = "none"
    /\ UNCHANGED <<paymentRows, labWorkRows>>
    /\ UNCHANGED labVars
    /\ UNCHANGED localVars
    /\ UNCHANGED corrupt
    /\ UNCHANGED <<world, today, now, treatments, labWork>>

\* updateLabWork after its await: .update().eq('id', ..).select().single()
\* reports an error when no row matches; on an error the state is set to
\* originalLabWork, otherwise the row is replaced by the one returned
updateLabWorkEnd(call, reachable) ==
    /\ world = "lab"
    /\ call \in calls
    /\ call.op = "update"
    /\ calls' = calls \ {call}
    /\ LET hit == {r \in labWorkRows : r.id = call.id}
           data == Merge(CHOOSE r \in hit : TRUE, call.updates)
       IN IF reachable /\ hit # {}
          THEN /\ labWorkRows' = (labWorkRows \ hit) \cup {data}
               /\ labWorkHook' = [i \in DOMAIN labWorkHook |->
                                     IF labWorkHook[i].id = call.id
                                     THEN data ELSE labWorkHook[i]]
               /\ toast' = "lab_updated"
          ELSE /\ labWorkHook' = call.originalLabWork
               /\ toast' = "lab_update_failed"
               /\ UNCHANGED labWorkRows
    /\ UNCHANGED paymentRows
    /\ UNCHANGED labVars
    /\ UNCHANGED localVars
    /\ UNCHANGED corrupt
    /\ UNCHANGED <<world, today, now, treatments, labWork>>

\* deleteLabWork up to its await
deleteLabWorkBegin(labWorkId) ==
    /\ world = "lab"
    /\ labWorkId \in LabWorks
    /\ \E i \in DOMAIN labWorkHook : labWorkHook[i].id = labWorkId
    /\ \A c \in calls : c.id # labWorkId
    /\ calls' = calls \cup {[op |-> "delete", id |-> labWorkId,
                             updates |-> <<>>,
                             originalLabWork |-> labWorkHook]}
    /\ labWorkHook' = SelectSeq(labWorkHook, LAMBDA work : work.id # labWorkId)
    /\ toast' = "none"
    /\ UNCHANGED <<paymentRows, labWorkRows>>
    /\ UNCHANGED labVars
    /\ UNCHANGED localVars
    /\ UNCHANGED corrupt
    /\ UNCHANGED <<world, today, now, treatments, labWork>>

\* deleteLabWork after its await: the delete of the row takes the rows of
\* lab_work_payments with it and nulls the reference of the rows of payments
deleteLabWorkEnd(call, reachable) ==
    /\ world = "lab"
    /\ call \in calls
    /\ call.op = "delete"
    /\ calls' = calls \ {call}
    /\ IF reachable
       THEN /\ labWorkRows' = {r \in labWorkRows : r.id # call.id}
            /\ labPayments' = lab_work_payments_on_delete(labPayments, call.id)
            /\ paymentRows' = payments_on_delete(paymentRows, call.id)
            /\ toast' = "lab_deleted"
            /\ UNCHANGED labWorkHook
       ELSE /\ labWorkHook' = call.originalLabWork
            /\ toast' = "lab_delete_failed"
            /\ UNCHANGED <<labWorkRows, labPayments, paymentRows>>
    /\ UNCHANGED <<labHook, dialog, labEditing, editPaymentData>>
    /\ UNCHANGED localVars
    /\ UNCHANGED corrupt
    /\ UNCHANGED <<world, today, now, treatments, labWork>>

\* the insert of addLabWorkPayment as it would be if it also linked the
\* payment to a treatment
LabWorkPaymentInsertLinked(id, patient_id, labWorkId, paymentData) ==
    [id |-> id,
     patient_id |-> patient_id,
     treatment_id |-> <<"T1">>,
     lab_work_id |-> <<labWorkId>>,
     amount |-> paymentData.amount_paid,
     payment_method |-> paymentData.payment_method,
     notes |-> paymentData.notes,
     payment_date |-> today]

\* the row addLabWorkPayment inserts: treatment_id is not given and
\* defaults to NULL
LabWorkPaymentInsert(id, patient_id, labWorkId, paymentData) ==
    [id |-> id,
     patient_id |-> patient_id,
     treatment_id |-> NULL,
     lab_work_id |-> <<labWorkId>>,
     amount |-> paymentData.amount_paid,
     payment_method |-> paymentData.payment_method,
     notes |-> paymentData.notes,
     payment_date |-> today]

\* addLabWorkPayment: the order's patient is read with .single(), then a row
\* of payments is inserted that references the patient and the order
addLabWorkPayment(labWorkId, paymentData, reachable) ==
    /\ world = "lab"
    /\ now < MaxPayments
    /\ LET labWorkData == {r \in labWorkRows : r.id = labWorkId}
           row == LabWorkPaymentInsert(now + 1,
                      (CHOOSE r \in labWorkData : TRUE).patient_id,
                      labWorkId, paymentData)
       IN IF reachable /\ labWorkData # {} /\ amount_check(row.amount)
          THEN /\ paymentRows' = paymentRows \cup {row}
               /\ now' = now + 1
               /\ toast' = "added"
          ELSE /\ toast' = "add_failed"
               /\ UNCHANGED <<paymentRows, now>>
    /\ UNCHANGED <<labWorkRows, labWorkHook, calls>>
    /\ UNCHANGED labVars
    /\ UNCHANGED localVars
    /\ UNCHANGED corrupt
    /\ UNCHANGED <<world, today, treatments, labWork>>

\* the update as it would be if the database kept the changes of a request
\* that single() makes fail for changing several rows
UpdateByLabWorkEvery(table, labWorkId, updates, reachable) ==
    LET hit == {r \in table : r.lab_work_id = <<labWorkId>>}
        new == {Merge(r, updates) : r \in hit}
    IN IF /\ reachable
          /\ hit # {}
          /\ \A r \in new : amount_check(r.amount)
       THEN [error |-> Cardinality(hit) # 1, table |-> (table \ hit) \cup new]
       ELSE [error |-> TRUE, table |-> table]

\* .update(..).eq('lab_work_id', labWorkId).select().single(): every row of
\* the order matches; when the rows changed are not exactly one, single()
\* makes the request fail and the database keeps none of its changes
UpdateByLabWork(table, labWorkId, updates, reachable) ==
    LET hit == {r \in table : r.lab_work_id = <<labWorkId>>}
        new == {Merge(r, updates) : r \in hit}
    IN IF /\ reachable
          /\ Cardinality(hit) = 1
          /\ \A r \in new : amount_check(r.amount)
       THEN [error |-> FALSE, table |-> (table \ hit) \cup new]
       ELSE [error |-> TRUE, table |-> table]

updateLabWorkPayment(labWorkId, paymentData, reachable) ==
    /\ world = "lab"
    /\ LET res == UpdateByLabWork(paymentRows, labWorkId,
                      [amount |-> paymentData.amount_paid,
                       payment_method |-> paymentData.payment_method,
                       notes |-> paymentData.notes], reachable)
       IN /\ paymentRows' = res.table
          /\ toast' = IF res.error THEN "update_failed" ELSE "updated"
    /\ UNCHANGED <<labWorkRows, labWorkHook, calls>>
    /\ UNCHANGED labVars
    /\ UNCHANGED localVars
    /\ UNCHANGED corrupt
    /\ UNCHANGED <<world, today, now, treatments, labWork>>

\* handleAddPayment of the PaymentHistory on the supabase draft of the hook:
\* addPayment inserts the row, which references neither a treatment nor a
\* lab-work order, and puts the row returned first; fetchPaymentData then
\* selects the patient's rows, all of one date, in the order the database
\* returns them
handleAddPaymentSupabase(s, form, reachable) ==
    /\ world = "lab"
    /\ IF InvalidAmountText(form.amount)
       THEN /\ toast' = "invalid_amount"
            /\ UNCHANGED <<now, paymentRows, payments, shown>>
       ELSE /\ now < MaxPayments
            /\ LET data == [id |-> now + 1,
                            patient_id |-> patientId[s],
                            treatment_id |-> NULL,
                            lab_work_id |-> NULL,
                            amount |-> parseFloat(form.amount).val,
                            payment_method |-> form.paymentMethod,
                            notes |-> form.notes,
                            payment_date |-> today]
               IN IF /\ reachable
                     /\ payments_patient_id_fkey(data.patient_id)
                     /\ amount_check(data.amount)
                  THEN /\ paymentRows' = paymentRows \cup {data}
                       /\ now' = now + 1
                       /\ payments' = [payments EXCEPT
                                          ![s] = <<data>> \o payments[s]]
                       /\ \E seq \in RowOrders({r \in paymentRows' :
                                      r.patient_id = patientId[s]}) :
                             shown' = [shown EXCEPT
                                ![s] = [list |-> seq,
                                        summary |->
                                          getPaymentSummaryForPatientSupabase(
                                            FetchResult(
                                              treatments[patientId[s]], FALSE),
                                            FetchResult(
                                              labWork[patientId[s]], FALSE),
                                            FetchResult(seq, FALSE)),
                                        failed |-> <<FALSE, FALSE>>]]
                       /\ toast' = "added"
                  ELSE /\ toast' = "add_failed"
                       /\ UNCHANGED <<now, paymentRows, payments, shown>>
    /\ UNCHANGED <<storage, mounted, patientId, editing, timers>>
    /\ UNCHANGED <<labWorkRows, labWorkHook, calls>>
    /\ UNCHANGED labVars
    /\ UNCHANGED corrupt
    /\ UNCHANGED <<world, today, treatments, labWork>>

\* ------------------------------------------------------- specifications
NoCosts == [p \in Patients |-> <<>>]
TreatmentTables == {[NoCosts EXCEPT !["PT1"] = <<NULL, <<5>>>>]}
LabWorkTables == {[NoCosts EXCEPT !["PT1"] = <<<<4>>>>]}
NoFailure == <<FALSE, FALSE>>

NoneShown == [list |-> <<>>,
              summary |-> [totalCost |-> 0, totalPaid |-> 0, balance |-> 0],
              failed |-> NoFailure]

InitLocal ==
    /\ world = "local"
    /\ today = 1
    /\ now = 0
    /\ storage = <<>>
    /\ corrupt = FALSE
    /\ DbIdle
    /\ payments = [s \in Sessions |-> <<>>]
    /\ mounted = [s \in Sessions |-> FALSE]
    /\ patientId = [s \in Sessions |-> "PT1"]
    /\ shown = [s \in Sessions |-> NoneShown]
    /\ editing = [s \in Sessions |-> 0]
    /\ timers = [s \in Sessions |-> {}]
    /\ treatments \in TreatmentTables
    /\ labWork \in LabWorkTables
    /\ toast = "none"
    /\ labPayments = {}
    /\ labHook = [s \in Sessions |-> <<>>]
    /\ dialog = [s \in Sessions |-> "closed"]
    /\ labEditing = [s \in Sessions |-> 0]
    /\ editPaymentData = [s \in Sessions |-> <<>>]

InitLab ==
    /\ world = "lab"
    /\ today = 1
    /\ now = 0
    /\ storage = <<>>
    /\ corrupt = FALSE
    /\ DbIdle
    /\ payments = [s \in Sessions |-> <<>>]
    /\ mounted = [s \in Sessions |-> FALSE]
    /\ patientId = [s \in Sessions |-> "PT1"]
    /\ shown = [s \in Sessions |-> NoneShown]
    /\ editing = [s \in Sessions |-> 0]
    /\ timers = [s \in Sessions |-> {}]
    /\ treatments \in TreatmentTables
    /\ labWork \in LabWorkTables
    /\ toast = "none"
    /\ labPayments = {}
    /\ labHook = [s \in Sessions |-> <<>>]
    /\ dialog = [s \in Sessions |-> "closed"]
    /\ labEditing = [s \in Sessions |-> 0]
    /\ editPaymentData = [s \in Sessions |-> <<>>]

\* one PaymentHistory, every input a user can give it, over several days
NextOne ==
    \/ \E pid \in Patients : Mount(1, pid, NoFailure)
    \/ \E pid \in Patients : ChangePatient(1, pid, NoFailure)
    \/ handleRefreshData(1, NoFailure)
    \/ \E form \in InvalidForms \cup RecordForms :
           handleAddPayment(1, form, TRUE, NoFailure)
    \/ \E i \in 1..MaxPayments : handleEditPayment(1, i)
    \/ resetDialog(1)
    \/ \E form \in InvalidForms \cup EditForms :
           handleUpdatePayment(1, form, TRUE, NoFailure)
    \/ \E i \in 1..MaxPayments, confirmed \in BOOLEAN :
           handleDeletePayment(1, i, confirmed, TRUE, NoFailure)
    \/ (world = "local" /\ Tick)

SpecOne == InitLocal /\ [][NextOne]_vars

\* one PaymentHistory whose environment fails: cost fetches return errors,
\* localStorage.setItem throws, the timers of addPayment fire late
NextEnv ==
    \/ \E ff \in FetchFailures : Mount(1, "PT1", ff)
    \/ \E ff \in FetchFailures : handleRefreshData(1, ff)
    \/ \E form \in RecordForms, saveOk \in BOOLEAN, ff \in FetchFailures :
           handleAddPayment(1, form, saveOk, ff)
    \/ \E l \in timers[1] : addPaymentTimeout(1, l)
    \/ \E i \in 1..MaxPayments : handleEditPayment(1, i)
    \/ resetDialog(1)
    \/ \E form \in EditForms, saveOk \in BOOLEAN, ff \in FetchFailures :
           handleUpdatePayment(1, form, saveOk, ff)
    \/ \E i \in 1..MaxPayments, confirmed, saveOk \in BOOLEAN,
          ff \in FetchFailures :
           handleDeletePayment(1, i, confirmed, saveOk, ff)

SpecEnv == InitLocal /\ [][NextEnv]_vars

\* two sessions on one localStorage, every fetch and every save succeeding
NextLocal ==
    \/ \E s \in Sessions : \E pid \in PatientChoices(s) :
           Mount(s, pid, NoFailure)
    \/ \E s \in Sessions : handleRefreshData(s, NoFailure)
    \/ \E s \in Sessions, form \in RecordForms :
           handleAddPayment(s, form, TRUE, NoFailure)
    \/ \E s \in Sessions, i \in 1..MaxPayments : handleEditPayment(s, i)
    \/ \E s \in Sessions : resetDialog(s)
    \/ \E s \in Sessions, form \in EditForms :
           handleUpdatePayment(s, form, TRUE, NoFailure)
    \/ \E s \in Sessions, i \in 1..MaxPayments, confirmed \in BOOLEAN :
           handleDeletePayment(s, i, confirmed, TRUE, NoFailure)

SpecLocal == InitLocal /\ [][NextLocal]_vars

\* one lab-work payment dialog on the database
NextLab ==
    \/ \E lw \in LabWorks, reachable \in BOOLEAN : LabOpen(1, lw, reachable)
    \/ LabClose(1)
    \/ \E form \in LabForms, reachable \in BOOLEAN :
           LabHandleAddPayment(1, form, reachable)
    \/ \E i \in 1..MaxPayments : LabHandleEditPayment(1, i)
    \/ \E text \in AmountTexts : LabChangeAmount(1, text)
    \/ \E date \in FormDates : LabChangeDate(1, date)
    \/ \E method \in EditMethods : LabChangeMethod(1, method)
    \/ \E notes \in EditNotes : LabChangeNotes(1, notes)
    \/ LabCancelEdit(1)
    \/ \E reachable \in BOOLEAN : handleSaveEdit(1, reachable)
    \/ \E i \in 1..MaxPayments, confirmed, reachable \in BOOLEAN :
           LabHandleDeletePayment(1, i, confirmed, reachable)

SpecLab == InitLab /\ [][NextLab]_vars

\* the inputs of the summary: cost columns with NULLs, payments of two
\* patients in every order
CostLists(values) ==
    {<<>>} \cup {<<a>> : a \in values}
           \cup {<<a, b>> : a \in values, b \in values}
SamplePayment(id, pid, amount) ==
    [id |-> id, patient_id |-> pid, amount |-> amount, payment_date |-> 1,
     payment_method |-> "cash", notes |-> "", created_at |-> id]
SamplePayments == {SamplePayment(1, "PT1", 1), SamplePayment(2, "PT1", 2),
                   SamplePayment(3, "PT2", 4)}
PaymentLists == UNION {RowOrders(S) : S \in SUBSET SamplePayments}

InitSummary ==
    /\ world = "summary"
    /\ today = 1
    /\ now = 0
    /\ corrupt = FALSE
    /\ DbIdle
    /\ \E ps \in PaymentLists :
           /\ storage = ps
           /\ payments = [s \in Sessions |-> IF s = 1 THEN ps ELSE <<>>]
    /\ mounted = [s \in Sessions |-> FALSE]
    /\ patientId = [s \in Sessions |-> "PT1"]
    /\ shown = [s \in Sessions |-> NoneShown]
    /\ editing = [s \in Sessions |-> 0]
    /\ timers = [s \in Sessions |-> {}]
    /\ \E costs \in CostLists({NULL, <<5>>, <<7>>}) :
           treatments = [NoCosts EXCEPT !["PT1"] = costs]
    /\ \E costs \in CostLists({NULL, <<4>>}) :
           labWork = [NoCosts EXCEPT !["PT1"] = costs]
    /\ toast = "none"
    /\ labPayments = {}
    /\ labHook = [s \in Sessions |-> <<>>]
    /\ dialog = [s \in Sessions |-> "closed"]
    /\ labEditing = [s \in Sessions |-> 0]
    /\ editPaymentData = [s \in Sessions |-> <<>>]

NextSummary ==
    \/ \E pid \in Patients : Summarize(1, pid, NoFailure)
    \/ \E pid \in Patients : SummarizeDraft(1, pid, FALSE)

SpecSummary == InitSummary /\ [][NextSummary]_vars

\* one PaymentHistory and one lab-work payment dialog, each on its ledger
NextLabCore ==
    \/ \E lw \in LabWorks : LabOpen(1, lw, TRUE)
    \/ LabClose(1)
    \/ \E form \in LabForms, reachable \in BOOLEAN :
           LabHandleAddPayment(1, form, reachable)
    \/ \E i \in 1..MaxPayments : LabHandleEditPayment(1, i)
    \/ \E text \in AmountTexts : LabChangeAmount(1, text)
    \/ \E date \in FormDates : LabChangeDate(1, date)
    \/ LabCancelEdit(1)
    \/ \E reachable \in BOOLEAN : handleSaveEdit(1, reachable)
    \/ \E i \in 1..MaxPayments, confirmed, reachable \in BOOLEAN :
           LabHandleDeletePayment(1, i, confirmed, reachable)

Init == InitLocal \/ InitLab

Next == NextOne \/ NextLabCore

Spec == Init /\ [][Next]_vars

\* ------------------------------------------------------------ properties
\* the toasts that tell the user an operation was refused or failed
ErrorToasts == {"invalid_amount", "add_failed", "update_failed",
                "delete_failed", "not_found"}

\* the summary the persisted records of patient pid amount to
ExactSummary(pid) ==
    LET totalCost == SumCosts(treatments[pid]) + SumCosts(labWork[pid])
        totalPaid == SumAmounts(getPaymentsByPatient(storage, pid))
    IN [totalCost |-> totalCost, totalPaid |-> totalPaid,
        balance |-> totalCost - totalPaid]

\* C1: whenever getPaymentSummaryForPatient (of hooks/usePayments.ts or of
\* the earlier hook) returns for a patient while every fetch succeeds, its
\* totalCost is the sum of the patient's treatment costs plus the sum of the
\* patient's lab-work costs (NULL as 0), its totalPaid the sum of the
\* patient's payments and its balance their difference, in whatever order
\* the records come.
C1_SummaryIsExact ==
    [][\A pid \in Patients :
          (Summarize(1, pid, NoFailure) \/ SummarizeDraft(1, pid, FALSE))
              => shown'[1].summary = ExactSummary(pid)]_vars

\* C2: once a create, update, delete or refresh handler has completed, the
\* list and the summary it read after its write are those of the payments
\* persisted for the patient at that moment.
C2_ReadSeesCommittedWrites ==
    \A s \in Sessions :
        (mounted[s] /\ toast \in {"added", "updated", "deleted", "refreshed"})
            => /\ shown[s].list = getPaymentsByPatient(storage, patientId[s])
               /\ shown[s].summary = ExactSummary(patientId[s])

\* C3: a payment that is stored stays stored across every step that is not a
\* confirmed delete of that very payment, whichever session takes the step.
C3_CreatedPaymentsPersist ==
    [][\A id \in Ids(storage) :
          \/ id \in Ids(storage')
          \/ \E s \in Sessions, i \in 1..MaxPayments :
                /\ handleDeletePayment(s, i, TRUE, TRUE, NoFailure)
                /\ shown[s].list[i].id = id]_vars

\* C4: in every reachable state every stored payment, in localStorage and in
\* the table lab_work_payments, has amount > 0.
C4_StoredAmountsPositive ==
    /\ \A i \in DOMAIN storage : storage[i].amount > 0
    /\ \A r \in labPayments : r.amount > 0

\* C4 witness: the lab-work edit row tried to save a negative amount on a
\* stored payment and the save was refused.
C4_Witness ==
    /\ labPayments # {}
    /\ labEditing[1] # 0
    /\ editPaymentData[1].amount = Num(-500)
    /\ toast = "update_failed"

\* C5: a create whose amount is 0 or negative is refused with an error shown
\* to the caller and stores nothing; a create of 0.01 that gets through
\* stores the payment.
C5_InvalidCreateSurfacesError ==
    [][\A form \in LabForms, reachable \in BOOLEAN :
          LabHandleAddPayment(1, form, reachable)
              => IF LeqZero(parseFloat(form.amount))
                 THEN toast' \in ErrorToasts /\ labPayments' = labPayments
                 ELSE (reachable /\ form.amount = "0.01")
                          => Cardinality(labPayments')
                                 = Cardinality(labPayments) + 1]_vars

\* C6: no summary computed while a cost fetch failed is ever handed to the
\* component: every summary on display comes from fetches that all succeeded.
C6_FailedFetchSurfaces ==
    \A s \in Sessions : shown[s].failed = NoFailure

\* the fields of a patient payment and of a lab-work payment that the claims
\* call immutable
SameIdentity(p, q) ==
    /\ q.patient_id = p.patient_id
    /\ q.payment_date = p.payment_date
    /\ q.created_at = p.created_at
SameLabIdentity(p, q) ==
    /\ q.lab_work_id = p.lab_work_id
    /\ q.created_at = p.created_at

C8_UpdateOfMissingIdFails ==
    [][\A form \in EditForms :
          (handleUpdatePayment(1, form, TRUE, NoFailure)
              /\ editing[1] \notin Ids(storage))
              => toast' \in ErrorToasts /\ storage' = storage]_vars

\* C9: a delete of an id that is not stored (a second delete of the same id)
\* is refused with a not-found error.
C9_DeleteOfMissingIdFails ==
    [][\A i \in 1..MaxPayments :
          (handleDeletePayment(1, i, TRUE, TRUE, NoFailure)
              /\ shown[1].list[i].id \notin Ids(storage))
              => toast' \in ErrorToasts]_vars

\* C10: saving an edit whose amount is 0 or negative is refused with an error
\* shown to the caller and the payment keeps its amount.
C10_InvalidUpdateSurfacesError ==
    [][\A reachable \in BOOLEAN :
          (handleSaveEdit(1, reachable)
              /\ LeqZero(editPaymentData[1].amount))
              => toast' \in ErrorToasts /\ labPayments' = labPayments]_vars

\* newest first: payment_date descending, payments of one date by creation
\* time descending
NewestFirst(seq) ==
    \A i, j \in DOMAIN seq :
        i < j => \/ seq[i].payment_date > seq[j].payment_date
                 \/ /\ seq[i].payment_date = seq[j].payment_date
                    /\ seq[i].created_at >= seq[j].created_at

\* C11: the list getPaymentsByPatient hands to the component holds payments
\* of that patient only, ordered by payment_date descending and, within one
\* date, by creation time descending.
C11_ListNewestFirst ==
    \A s \in Sessions :
        mounted[s] =>
            /\ \A i \in DOMAIN shown[s].list :
                   shown[s].list[i].patient_id = patientId[s]
            /\ NewestFirst(shown[s].list)

\* PaymentHistory components that only read: they mount on a store that
\* already holds payments, refresh and switch patient; nothing is written
InitReads ==
    /\ world = "local"
    /\ today = 1
    /\ now = 0
    /\ storage \in PaymentLists
    /\ corrupt = FALSE
    /\ DbIdle
    /\ payments = [s \in Sessions |-> <<>>]
    /\ mounted = [s \in Sessions |-> FALSE]
    /\ patientId = [s \in Sessions |-> "PT1"]
    /\ shown = [s \in Sessions |-> NoneShown]
    /\ editing = [s \in Sessions |-> 0]
    /\ timers = [s \in Sessions |-> {}]
    /\ treatments \in TreatmentTables
    /\ labWork \in LabWorkTables
    /\ toast = "none"
    /\ labPayments = {}
    /\ labHook = [s \in Sessions |-> <<>>]
    /\ dialog = [s \in Sessions |-> "closed"]
    /\ labEditing = [s \in Sessions |-> 0]
    /\ editPaymentData = [s \in Sessions |-> <<>>]

NextReads ==
    \/ \E s \in Sessions, pid \in Patients : Mount(s, pid, NoFailure)
    \/ \E s \in Sessions, pid \in Patients : ChangePatient(s, pid, NoFailure)
    \/ \E s \in Sessions : handleRefreshData(s, NoFailure)

SpecReads == InitReads /\ [][NextReads]_vars

\* C12: with no write to payments, treatments or lab work, a second
\* getPaymentSummaryForPatient for the same patient returns what the first
\* returned, also when the first was made by the effect of the mount.
C12_SummaryRepeats ==
    [][\A s \in Sessions :
          (mounted[s] /\ handleRefreshData(s, NoFailure))
              => shown'[s].summary = shown[s].summary]_vars

\* the summary functions on a store whose text may not parse; while it does
\* not, nothing can be read from it and storage holds no payments
InitStore ==
    /\ world = "summary"
    /\ today = 1
    /\ now = 0
    /\ corrupt \in BOOLEAN
    /\ DbIdle
    /\ \E ps \in PaymentLists :
           /\ storage = IF corrupt THEN <<>> ELSE ps
           /\ payments = [s \in Sessions |-> IF s = 1 THEN ps ELSE <<>>]
    /\ mounted = [s \in Sessions |-> FALSE]
    /\ patientId = [s \in Sessions |-> "PT1"]
    /\ shown = [s \in Sessions |-> NoneShown]
    /\ editing = [s \in Sessions |-> 0]
    /\ timers = [s \in Sessions |-> {}]
    /\ treatments \in TreatmentTables
    /\ labWork \in LabWorkTables
    /\ toast = "none"
    /\ labPayments = {}
    /\ labHook = [s \in Sessions |-> <<>>]
    /\ dialog = [s \in Sessions |-> "closed"]
    /\ labEditing = [s \in Sessions |-> 0]
    /\ editPaymentData = [s \in Sessions |-> <<>>]

NextStore ==
    \/ \E s \in Sessions, pid \in Patients : Summarize(s, pid, NoFailure)
    \/ \E s \in Sessions, pid \in Patients : SummarizeFresh(s, pid, NoFailure)

SpecStore == InitStore /\ [][NextStore]_vars

\* C13: a call of getPaymentSummaryForPatient leaves the persisted payments,
\* the treatments and the lab work as they were, also when the stored
\* payment text does not parse.
C13_SummaryWritesNothing ==
    [][\A s \in Sessions, pid \in Patients :
          (Summarize(s, pid, NoFailure) \/ SummarizeFresh(s, pid, NoFailure))
              => /\ storage' = storage
                 /\ corrupt' = corrupt
                 /\ treatments' = treatments
                 /\ labWork' = labWork]_vars

\* C14: when handleAddPayment has stored a payment and read the list back,
\* the list holds exactly one record with the patient, amount, date, method
\* and notes of the input, under the generated id and creation time.
C14_CreateThenListRoundTrip ==
    [][\A form \in RecordForms :
          handleAddPayment(1, form, TRUE, NoFailure)
              => Cardinality({i \in DOMAIN shown'[1].list :
                     /\ shown'[1].list[i].id = now'
                     /\ shown'[1].list[i].created_at = now'
                     /\ shown'[1].list[i].patient_id = patientId[1]
                     /\ shown'[1].list[i].amount = parseFloat(form.amount).val
                     /\ shown'[1].list[i].payment_date = today
                     /\ shown'[1].list[i].payment_method = form.paymentMethod
                     /\ shown'[1].list[i].notes = form.notes}) = 1]_vars

\* a session is about to update a payment that another session has updated
\* since this session loaded it
ConcurrentUpdate(s) ==
    /\ \E i \in DOMAIN storage :
           storage[i].id = editing[s] /\ storage[i].notes = "adv"
    /\ \E k \in DOMAIN payments[s] :
           payments[s][k].id = editing[s] /\ payments[s][k].notes = ""

\* C15: when two sessions update the same payment concurrently, the stored
\* payment carries the values of the update that commits last, and every
\* other stored payment is still stored unaltered.
C15_UpdateLastWriteWins ==
    [][\A s \in Sessions, form \in EditForms :
          (ConcurrentUpdate(s) /\ handleUpdatePayment(s, form, TRUE, NoFailure))
              => /\ \A j \in DOMAIN storage' :
                        storage'[j].id = editing[s]
                            => /\ storage'[j].amount
                                      = parseFloat(form.amount).val
                               /\ storage'[j].payment_method
                                      = form.paymentMethod
                               /\ storage'[j].notes = form.notes
                 /\ \A i \in DOMAIN storage :
                        storage[i].id # editing[s]
                            => \E j \in DOMAIN storage' :
                                   storage'[j] = storage[i]]_vars

\* the stored payments other than paymentId are the same, in the same order,
\* before and after the step
OthersUnchanged(paymentId) ==
    SelectSeq(storage', LAMBDA p : p.id # paymentId)
        = SelectSeq(storage, LAMBDA p : p.id # paymentId)

\* C16: when a payment of the patient on display is deleted while the summary
\* on display is that of the stored data, the summary read after the delete
\* has totalPaid lower and balance higher by the payment's amount and the
\* same totalCost, and every other stored payment is unchanged.
C16_DeleteLowersTotalPaid ==
    [][\A i \in 1..MaxPayments :
          (/\ handleDeletePayment(1, i, TRUE, TRUE, NoFailure)
           /\ shown[1].list[i].id \in Ids(storage)
           /\ shown[1].summary = ExactSummary(patientId[1]))
              => /\ shown'[1].summary.totalPaid
                        = shown[1].summary.totalPaid - shown[1].list[i].amount
                 /\ shown'[1].summary.balance
                        = shown[1].summary.balance + shown[1].list[i].amount
                 /\ shown'[1].summary.totalCost = shown[1].summary.totalCost
                 /\ OthersUnchanged(shown[1].list[i].id)]_vars

\* C17: when the amount of a payment of the patient on display is updated
\* from a to b while the summary on display is that of the stored data, the
\* summary read after the update has totalPaid changed by b - a and balance
\* by a - b, and every other stored payment is unchanged.
C17_UpdateShiftsTotalPaid ==
    [][\A form \in EditForms, k \in DOMAIN storage :
          (/\ handleUpdatePayment(1, form, TRUE, NoFailure)
           /\ storage[k].id = editing[1]
           /\ storage[k].patient_id = patientId[1]
           /\ shown[1].summary = ExactSummary(patientId[1]))
              => /\ shown'[1].summary.totalPaid
                        = shown[1].summary.totalPaid
                              + parseFloat(form.amount).val - storage[k].amount
                 /\ shown'[1].summary.balance
                        = shown[1].summary.balance
                              + storage[k].amount - parseFloat(form.amount).val
                 /\ OthersUnchanged(editing[1])]_vars

\* ------------------------------- loads that fail (hook draft on supabase)
\* fetchPayments of the supabase draft: an error is toasted and the state is
\* left as it was; otherwise the state becomes the rows in table order
refreshPaymentsSupabase(s, failed) ==
    /\ world = "summary"
    /\ payments' = [payments EXCEPT ![s] = IF failed THEN @ ELSE storage]
    /\ toast' = IF failed THEN "load_failed" ELSE "none"
    /\ UNCHANGED labVars
    /\ UNCHANGED corrupt
    /\ UNCHANGED dbVars
    /\ UNCHANGED <<world, today, now, storage, mounted, patientId, shown,
                   editing, timers, treatments, labWork>>

\* getPaymentsByPatient of the supabase draft: an error is thrown into its
\* own catch, which returns []
getPaymentsByPatientSupabase(table, pid, failed) ==
    IF failed THEN <<>> ELSE getPaymentsByPatient(table, pid)

\* fetchPaymentData of the component on the supabase draft: neither call
\* rejects, so its catch and its toast are never reached
fetchPaymentDataSupabase(s, pid, listFailed, paidFailed) ==
    /\ world = "summary"
    /\ patientId' = [patientId EXCEPT ![s] = pid]
    /\ shown' = [shown EXCEPT
           ![s] = [list |-> getPaymentsByPatientSupabase(storage, pid,
                                                          listFailed),
                   summary |-> getPaymentSummaryForPatientSupabase(
                                   FetchResult(treatments[pid], FALSE),
                                   FetchResult(labWork[pid], FALSE),
                                   FetchResult(
                                       getPaymentsByPatient(storage, pid),
                                       paidFailed)),
                   failed |-> NoFailure]]
    /\ toast' = "none"
    /\ UNCHANGED labVars
    /\ UNCHANGED corrupt
    /\ UNCHANGED dbVars
    /\ UNCHANGED <<world, today, now, storage, payments, mounted, editing,
                   timers, treatments, labWork>>

\* components that only load, on a localStorage whose text may not parse or
\* on the supabase table, whose selects may fail
InitLoad ==
    /\ world \in {"local", "summary"}
    /\ today = 1
    /\ now = 0
    /\ corrupt \in BOOLEAN
    /\ DbIdle
    /\ world = "summary" => ~corrupt
    /\ \E ps \in PaymentLists : storage = IF corrupt THEN <<>> ELSE ps
    /\ payments = [s \in Sessions |-> <<>>]
    /\ mounted = [s \in Sessions |-> FALSE]
    /\ patientId = [s \in Sessions |-> "PT1"]
    /\ shown = [s \in Sessions |-> NoneShown]
    /\ editing = [s \in Sessions |-> 0]
    /\ timers = [s \in Sessions |-> {}]
    /\ treatments \in TreatmentTables
    /\ labWork \in LabWorkTables
    /\ toast = "none"
    /\ labPayments = {}
    /\ labHook = [s \in Sessions |-> <<>>]
    /\ dialog = [s \in Sessions |-> "closed"]
    /\ labEditing = [s \in Sessions |-> 0]
    /\ editPaymentData = [s \in Sessions |-> <<>>]

NextLoad ==
    \/ \E s \in Sessions, pid \in Patients : Mount(s, pid, NoFailure)
    \/ \E s \in Sessions, pid \in Patients : ChangePatient(s, pid, NoFailure)
    \/ \E s \in Sessions : handleRefreshData(s, NoFailure)
    \/ \E s \in Sessions, failed \in BOOLEAN :
           refreshPaymentsSupabase(s, failed)
    \/ \E s \in Sessions, pid \in Patients, listFailed, paidFailed \in BOOLEAN :
           fetchPaymentDataSupabase(s, pid, listFailed, paidFailed)

SpecLoad == InitLoad /\ [][NextLoad]_vars

\* the toasts that report a failure, the failed load among them
FailureToasts == ErrorToasts \cup {"load_failed"}

\* C18: a load of the payments that fails is not handed on as a result with
\* no payments: when the stored text does not parse, the hook state after
\* the load is not an empty list without a failure toast; when the select of
\* the patient's payments fails, the component's list is not empty without a
\* failure toast; when the select of the amounts fails, the summary is not
\* one that says nothing was paid without a failure toast.
C18_FailedLoadIsNotEmpty ==
    [][/\ \A s \in Sessions, pid \in Patients :
             (corrupt /\ (Mount(s, pid, NoFailure)
                             \/ handleRefreshData(s, NoFailure)))
                 => ~(payments'[s] = <<>> /\ toast' \notin FailureToasts)
       /\ \A s \in Sessions, failed \in BOOLEAN :
             (failed /\ refreshPaymentsSupabase(s, failed))
                 => ~(payments'[s] = <<>> /\ payments[s] # <<>>
                         /\ toast' \notin FailureToasts)
       /\ \A s \in Sessions, pid \in Patients, paidFailed \in BOOLEAN :
             fetchPaymentDataSupabase(s, pid, TRUE, paidFailed)
                 => ~(shown'[s].list = <<>> /\ toast' \notin FailureToasts)
       /\ \A s \in Sessions, pid \in Patients, listFailed \in BOOLEAN :
             fetchPaymentDataSupabase(s, pid, listFailed, TRUE)
                 => ~(shown'[s].summary.totalPaid = 0
                         /\ toast' \notin FailureToasts)]_vars

\* --------------------------------------- the totals of a lab-work order
\* lab_work.cost of each order, a nullable column
LabWorkCosts == [lw \in LabWorks |-> IF lw = "LW1" THEN <<4>> ELSE NULL]

\* get_lab_work_total_payments: COALESCE(SUM(amount) of the order's rows, 0)
RECURSIVE SumRows(_)
SumRows(rows) ==
    IF rows = {} THEN 0
    ELSE LET r == CHOOSE x \in rows : TRUE
         IN r.amount + SumRows(rows \ {r})
get_lab_work_total_payments(table, lab_work_uuid) ==
    SumRows({r \in table : r.lab_work_id = lab_work_uuid})

\* get_lab_work_balance: COALESCE(cost, 0) minus the total payments
get_lab_work_balance(table, lab_work_uuid) ==
    OrZero(LabWorkCosts[lab_work_uuid])
        - get_lab_work_total_payments(table, lab_work_uuid)

\* the figures LabWorkCard renders for an order of the cost given
LabWorkCard(cost) ==
    LET totalCost == OrZero(cost)
        totalPaid == 0
        balanceRemaining == totalCost - totalPaid
    IN [totalCost |-> totalCost, totalPaid |-> totalPaid,
        balanceRemaining |-> balanceRemaining]

\* the figures the payment dialog of a session renders for its order
LabDialogTotals(s) ==
    [totalPaid |-> calculateTotalPaid(labHook[s]),
     balance |-> calculateBalance(OrZero(LabWorkCosts[dialog[s]]), labHook[s])]

\* C19: for every lab-work order the card shows, and for the order a payment
\* dialog is open on the dialog shows, a total paid that is the sum of the
\* amounts of the order's recorded payments and a balance that is the
\* order's cost minus that sum.
C19_LabTotalsAreSums ==
    /\ \A lw \in LabWorks :
          /\ LabWorkCard(LabWorkCosts[lw]).totalPaid
                 = get_lab_work_total_payments(labPayments, lw)
          /\ LabWorkCard(LabWorkCosts[lw]).balanceRemaining
                 = get_lab_work_balance(labPayments, lw)
    /\ \A s \in Sessions : dialog[s] # "closed" =>
          /\ LabDialogTotals(s).totalPaid
                 = get_lab_work_total_payments(labPayments, dialog[s])
          /\ LabDialogTotals(s).balance
                 = get_lab_work_balance(labPayments, dialog[s])

\* C20: the list a payment dialog holds for the lab-work order it is open
\* on contains only payments of that order and is ordered by payment_date
\* descending, then by creation time descending.
C20_LabListScopedNewestFirst ==
    \A s \in Sessions : dialog[s] # "closed" =>
        /\ \A i \in DOMAIN labHook[s] : labHook[s][i].lab_work_id = dialog[s]
        /\ NewestFirst(labHook[s])

\* C21: every stored payment references an existing patient.
C21_PaymentsReferencePatients ==
    \A i \in DOMAIN storage : payments_patient_id_fkey(storage[i].patient_id)

\* ------------------------------------- the lab-work orders and their payments
\* the order a behaviour creates, what an edit of an order changes, and what
\* is handed to addLabWorkPayment and updateLabWorkPayment
NewLabWorks == {"LW3"}
LabWorkUpdates == {[status |-> "completed"]}
LabWorkPaymentData(amount, method, notes) ==
    [amount_paid |-> amount, payment_method |-> method, notes |-> notes]
AddedPaymentData == {LabWorkPaymentData(1, "cash", "")}
UpdatedPaymentData == {LabWorkPaymentData(2, "card", "adv")}

\* one useLabWork whose calls overlap and whose database may refuse: order
\* LW1 is edited, order LW2 is deleted, order LW3 is created
NextOrders ==
    \/ \E reachable \in BOOLEAN : fetchLabWork(reachable)
    \/ \E id \in NewLabWorks, reachable \in BOOLEAN :
           createLabWork(id, reachable)
    \/ \E updates \in LabWorkUpdates : updateLabWorkBegin("LW1", updates)
    \/ \E call \in calls, reachable \in BOOLEAN :
           updateLabWorkEnd(call, reachable)
    \/ deleteLabWorkBegin("LW2")
    \/ \E call \in calls, reachable \in BOOLEAN :
           deleteLabWorkEnd(call, reachable)

SpecOrders == InitLab /\ [][NextOrders]_vars

\* the payments of the lab-work orders in both tables, and orders deleted
NextLedger ==
    \/ fetchLabWork(TRUE)
    \/ \E id \in LabWorks : deleteLabWorkBegin(id)
    \/ \E call \in calls : deleteLabWorkEnd(call, TRUE)
    \/ \E lw \in LabWorks : LabOpen(1, lw, TRUE)
    \/ LabClose(1)
    \/ LabHandleAddPayment(1, LabForm("0.01", 1), TRUE)
    \/ \E lw \in LabWorks, data \in AddedPaymentData, reachable \in BOOLEAN :
           addLabWorkPayment(lw, data, reachable)
    \/ \E lw \in LabWorks, data \in UpdatedPaymentData, reachable \in BOOLEAN :
           updateLabWorkPayment(lw, data, reachable)
    \/ \E form \in RecordForms, reachable \in BOOLEAN :
           handleAddPaymentSupabase(1, form, reachable)

SpecLedger == InitLab /\ [][NextLedger]_vars

\* C22: a lab-work order that is deleted takes no payment with it: every row
\* of payments and every row of lab_work_payments stored before the delete is
\* stored after it with its amount, and a row of payments that referenced
\* the order keeps its patient and has the reference set to null.
C22_DeleteKeepsPayments ==
    [][\A call \in calls :
          deleteLabWorkEnd(call, TRUE)
              => /\ \A r \in paymentRows : \E q \in paymentRows' :
                        /\ q.id = r.id
                        /\ q.amount = r.amount
                        /\ q.patient_id = r.patient_id
                        /\ r.lab_work_id = <<call.id>> => q.lab_work_id = NULL
                 /\ \A r \in labPayments : \E q \in labPayments' :
                        q.id = r.id /\ q.amount = r.amount]_vars

\* C23: a stored payment is missing from the store after a step only when
\* the step is a delete of that payment which the user confirmed, and a
\* delete the user declined leaves the store and the list on display as
\* they were.
C23_OnlyConfirmedDeleteRemoves ==
    [][/\ \A id \in Ids(storage) \ Ids(storage') :
             \E s \in Sessions, i \in 1..MaxPayments :
                /\ handleDeletePayment(s, i, TRUE, TRUE, NoFailure)
                /\ shown[s].list[i].id = id
       /\ \A s \in Sessions, i \in 1..MaxPayments :
             handleDeletePayment(s, i, FALSE, TRUE, NoFailure)
                 => storage' = storage /\ shown' = shown]_vars

\* the summary function and the payment dialog of a lab-work order, on
\* costs and payments of which some overpay
InitBalance == InitSummary \/ InitLab

NextBalance ==
    \/ \E pid \in Patients : Summarize(1, pid, NoFailure)
    \/ \E lw \in LabWorks : LabOpen(1, lw, TRUE)
    \/ LabClose(1)
    \/ \E d \in FormDates : LabHandleAddPayment(1, LabForm("0.01", d), TRUE)

SpecBalance == InitBalance /\ [][NextBalance]_vars

\* C24: the balance of every summary returned is its totalCost minus its
\* totalPaid, and the balance of the payment dialog of a lab-work order is
\* the order's cost minus the sum of the payments listed, also when the
\* payments exceed the cost.
C24_BalanceIsSigned ==
    \A s \in Sessions :
        /\ shown[s].summary.balance
               = shown[s].summary.totalCost - shown[s].summary.totalPaid
        /\ dialog[s] # "closed" =>
               LabDialogTotals(s).balance
                   = OrZero(LabWorkCosts[dialog[s]]) - SumAmounts(labHook[s])

\* a summary of a patient who paid more than the cost has been returned
C24_Witness ==
    \E s \in Sessions :
        /\ shown[s].summary.totalPaid > shown[s].summary.totalCost
        /\ shown[s].summary.balance < 0

\* C25: no row of payments references both a treatment and a lab-work
\* order.
C25_AtMostOneBillableItem ==
    \A r \in paymentRows : r.treatment_id = NULL \/ r.lab_work_id = NULL

\* payments holds a row linked to a lab-work order and a row linked to
\* nothing
C25_Witness ==
    /\ \E r \in paymentRows : r.lab_work_id # NULL /\ r.treatment_id = NULL
    /\ \E r \in paymentRows : r.lab_work_id = NULL /\ r.treatment_id = NULL

\* ------------------------------------------------ the ids of addPayment
\* what Math.random().toString(36).substr(2, 9) may return
Randoms == {"a", "b"}

\* the payment of the calls below
CallData == [patient_id |-> "PT1", amount |-> 1, payment_date |-> 1,
             payment_method |-> "cash", notes |-> ""]

\* the clock of Date.now() moves on by a millisecond
ClockTick ==
    /\ world = "local"
    /\ now < MaxPayments
    /\ now' = now + 1
    /\ toast' = "none"
    /\ UNCHANGED localVars
    /\ UNCHANGED labVars
    /\ UNCHANGED corrupt
    /\ UNCHANGED dbVars
    /\ UNCHANGED <<world, today, treatments, labWork>>

\* addPayment of hooks/usePayments.ts called in the millisecond now: the id
\* is `payment_${Date.now()}_${random}`
addPaymentCall(s, paymentData, random) ==
    /\ world = "local"
    /\ mounted[s]
    /\ Len(payments[s]) < MaxPayments
    /\ LET updatedPayments ==
               addPayment(payments[s], paymentData, <<now, random>>, now)
       IN /\ payments' = [payments EXCEPT ![s] = updatedPayments]
          /\ storage' = savePaymentsToStorage(storage, updatedPayments, TRUE)
          /\ timers' = [timers EXCEPT ![s] = timers[s] \cup {updatedPayments}]
    /\ toast' = "none"
    /\ UNCHANGED labVars
    /\ UNCHANGED corrupt
    /\ UNCHANGED dbVars
    /\ UNCHANGED <<world, today, now, mounted, patientId, shown, editing,
                   treatments, labWork>>

\* addPayment of the earlier hook called in the millisecond now: the id is
\* `payment_${Date.now()}`, and the list is written with setItem directly
addPaymentDraftCall(s, paymentData) ==
    /\ world = "local"
    /\ mounted[s]
    /\ Len(payments[s]) < MaxPayments
    /\ LET updatedPayments ==
               addPayment(payments[s], paymentData, <<now>>, now)
       IN /\ payments' = [payments EXCEPT ![s] = updatedPayments]
          /\ storage' = updatedPayments
    /\ toast' = "none"
    /\ UNCHANGED labVars
    /\ UNCHANGED corrupt
    /\ UNCHANGED dbVars
    /\ UNCHANGED <<world, today, now, mounted, patientId, shown, editing,
                   timers, treatments, labWork>>

\* two tabs that call addPayment, some calls within one millisecond
NextIds ==
    \/ \E s \in Sessions : Mount(s, "PT1", NoFailure)
    \/ ClockTick
    \/ \E s \in Sessions, random \in Randoms :
           addPaymentCall(s, CallData, random)
    \/ \E s \in Sessions : addPaymentDraftCall(s, CallData)
    \/ \E s \in Sessions : \E l \in timers[s] : addPaymentTimeout(s, l)

SpecIds == InitLocal /\ [][NextIds]_vars

\* C26: no two stored payments have the same id.
C26_IdsAreUnique ==
    \A i, j \in DOMAIN storage : i # j => storage[i].id # storage[j].id

\* C27: a call of updateLabWorkPayment changes at most one row of payments
\* and removes or adds none, so that of several payments recorded for one
\* lab-work order all but at most one keep their amount, method and notes.
C27_UpdateChangesAtMostOne ==
    [][\A lw \in LabWorks, data \in UpdatedPaymentData, reachable \in BOOLEAN :
          updateLabWorkPayment(lw, data, reachable)
              => /\ {r.id : r \in paymentRows'} = {r.id : r \in paymentRows}
                 /\ Cardinality(paymentRows \ paymentRows') <= 1]_vars

\* updateLabWorkPayment has been refused while two payments were recorded
\* for one lab-work order
C27_Witness ==
    /\ toast = "update_failed"
    /\ \E r, q \in paymentRows :
          r.id # q.id /\ r.lab_work_id # NULL /\ r.lab_work_id = q.lab_work_id

\* one PaymentHistory whose localStorage.setItem may throw
NextSave ==
    \/ Mount(1, "PT1", NoFailure)
    \/ handleRefreshData(1, NoFailure)
    \/ \E form \in RecordForms, saveOk \in BOOLEAN :
           handleAddPayment(1, form, saveOk, NoFailure)
    \/ \E l \in timers[1] : addPaymentTimeout(1, l)
    \/ \E i \in 1..MaxPayments : handleEditPayment(1, i)
    \/ resetDialog(1)
    \/ \E form \in EditForms, saveOk \in BOOLEAN :
           handleUpdatePayment(1, form, saveOk, NoFailure)
    \/ \E i \in 1..MaxPayments, saveOk \in BOOLEAN :
           handleDeletePayment(1, i, TRUE, saveOk, NoFailure)

SpecSave == InitLocal /\ [][NextSave]_vars

\* C28: when localStorage.setItem throws in addPayment, updatePayment or
\* deletePayment, the payments array of the hook and the stored list are
\* after the call what they were before it, and the caller gets the error,
\* which the handler reports.
C28_FailedSaveRestores ==
    [][/\ \A form \in RecordForms :
             handleAddPayment(1, form, FALSE, NoFailure)
                 => /\ payments' = payments
                    /\ storage' = storage
                    /\ toast' = "add_failed"
       /\ \A form \in EditForms :
             handleUpdatePayment(1, form, FALSE, NoFailure)
                 => /\ payments' = payments
                    /\ storage' = storage
                    /\ toast' = "update_failed"
       /\ \A i \in 1..MaxPayments :
             handleDeletePayment(1, i, TRUE, FALSE, NoFailure)
                 => /\ payments' = payments
                    /\ storage' = storage
                    /\ toast' = "delete_failed"]_vars

\* a save has failed while a payment was stored
C28_Witness ==
    /\ toast \in {"add_failed", "update_failed", "delete_failed"}
    /\ storage # <<>>
    /\ payments[1] = storage

\* the rows of the list that the call is not about, in the order of the list
WithoutCall(call) ==
    SelectSeq(labWorkHook, LAMBDA work : work.id # call.id)

\* C29: when the database refuses an updateLabWork or a deleteLabWork, the
\* rows of the other orders that the list held just before the refusal
\* arrived are in the list after it, as they were: a row created, changed
\* or removed by a call that completed while the refused one was awaited
\* stays created, changed or removed.
C29_FailureUndoesOnlyItself ==
    [][\A call \in calls :
          (updateLabWorkEnd(call, FALSE) \/ deleteLabWorkEnd(call, FALSE))
              => SelectSeq(labWorkHook', LAMBDA work : work.id # call.id)
                     = WithoutCall(call)]_vars

\* C30: in the lab-work payments hook, an addPayment, updatePayment or
\* deletePayment that the database rejects leaves the payment list of the
\* hook as it was and reports the error; one that the database accepts
\* changes the list by that payment only: the new row is put in front of
\* the unchanged list, the updated row takes the values the database
\* returns in its place while every other row stays, the deleted row is
\* taken out while every other row stays in its place.
C30_ListChangesByThePaymentOnly ==
    [][/\ \A form \in LabForms, reachable \in BOOLEAN :
            LabHandleAddPayment(1, form, reachable)
                => \/ /\ toast' \in {"add_failed", "none"}
                      /\ labHook' = labHook
                   \/ /\ toast' = "added"
                      /\ Len(labHook'[1]) = Len(labHook[1]) + 1
                      /\ Tail(labHook'[1]) = labHook[1]
                      /\ Head(labHook'[1]) \in labPayments' \ labPayments
       /\ \A reachable \in BOOLEAN :
            handleSaveEdit(1, reachable)
                => \/ /\ toast' \in {"update_failed", "none"}
                      /\ labHook' = labHook
                   \/ /\ toast' = "updated"
                      /\ DOMAIN labHook'[1] = DOMAIN labHook[1]
                      /\ \A i \in DOMAIN labHook[1] :
                            IF labHook[1][i].id = labEditing[1]
                            THEN labHook'[1][i] \in labPayments'
                            ELSE labHook'[1][i] = labHook[1][i]
       /\ \A i \in 1..MaxPayments, reachable \in BOOLEAN :
            LabHandleDeletePayment(1, i, TRUE, reachable)
                => \/ /\ toast' = "delete_failed"
                      /\ labHook' = labHook
                   \/ /\ toast' = "deleted"
                      /\ labHook'[1] = SelectSeq(labHook[1],
                             LAMBDA p : p.id # labHook[1][i].id)
      ]_vars

\* a payment of the dialog was deleted and another one, of the same day,
\* is still in the list
C30_Witness ==
    /\ world = "lab"
    /\ toast = "deleted"
    /\ Len(labHook[1]) = 1
    /\ \E r \in labPayments : r = labHook[1][1]
    /\ now = MaxPayments

====
